---- MODULE Spec2Model ----
(***************************************************************************)
(* The AWS Marketplace scraper: the fetch layer (disk cache, retry with    *)
(* backoff), the sitemap step and the resumable scrape loop, as the three  *)
(* scripts of the repository implement them:                               *)
(*   "aws_scraper"        src/aws_scraper.py        (fetch, no cache)      *)
(*   "aws_test"           src/aws_test.py           (fetch_url, cache)     *)
(*   "aws_test2_wreviews" src/aws_test2_wreviews.py (fetch_url, cache,     *)
(*                                                   resume, reviews page) *)
(* One behaviour runs one script, possibly several times in a row on the   *)
(* same disk (cache directory, output tables); the process may be          *)
(* terminated at any step (Spec).                                          *)
(* SpecLoop is the resume step and the scrape loop of aws_test2_wreviews   *)
(* on a longer list of URLs; SpecText applies the classifiers and          *)
(* extractors, which are functions of a text or a URL, to bounded inputs.  *)
(***************************************************************************)
EXTENDS Integers, Sequences, FiniteSets, TLC

\* ------------------------------------------------------------------ bounds
\* Number of times the script is started on the same disk.
MaxRuns == 2
\* SAMPLE_PRODUCTS_TOTAL (100, 200 or 300 in the scripts), scaled down so that
\* sampling truncates the product list of the model's sitemaps.
SAMPLE_PRODUCTS_TOTAL == 2
\* PAUSE_EVERY_N (100 in aws_test2_wreviews.py), scaled down likewise.
PAUSE_EVERY_N == 2
\* The number of sampled product URLs in SpecLoop.
MaxLoopItems == 6
\* The longest page text the text functions are applied to, in words (pieces).
MaxTextLen == 3
\* The most "/"-separated segments a URL has before its last one.
MaxDirs == 3

\* ------------------------------------------------------- program constants
\* safe_filename keeps the first 120 characters.
SafeNameLen == 120

Variants == {"aws_scraper", "aws_test", "aws_test2_wreviews"}

MAX_RETRIES(v) ==
    CASE v = "aws_scraper" -> 3
      [] v = "aws_test" -> 4
      [] OTHER -> 5

\* The statuses each script retries explicitly (sleep, double, continue).
TransientStatuses(v) ==
    IF v = "aws_test" THEN {429, 500, 502, 503} ELSE {429, 500, 502, 503, 504}

\* aws_test.fetch_url has no branch for 404.
Handles404(v) == v # "aws_test"

\* aws_scraper.fetch has no cache; the other two pass use_cache=True everywhere.
UsesCache(v) == v # "aws_scraper"

\* RESUME = True exists in aws_test2_wreviews.py only.
RESUME(v) == v = "aws_test2_wreviews"

\* ------------------------------------------------------------------- URLs
\* A URL is its path: the directory segments (whole words) and the last
\* segment spelled out character by character.
Url(dirs, last) == [dirs |-> dirs, last |-> last]
NoUrl == Url(<< >>, << >>)

ProdviewPrefix == <<"p", "r", "o", "d", "v", "i", "e", "w", "-">>

SITEMAP_URL == Url(<<"marketplace">>, <<"sitemap.xml">>)

\* Two URLs of one product, two products whose identifiers differ in one
\* character outside [a-zA-Z0-9._-], a product URL without a prodview id, and
\* a category URL.
UA  == Url(<<"marketplace", "pp">>, ProdviewPrefix \o <<"a">>)
UA2 == Url(<<"marketplace", "pp", "x">>, ProdviewPrefix \o <<"a">>)
UT  == Url(<<"marketplace", "pp">>, ProdviewPrefix \o <<"~">>)
UU  == Url(<<"marketplace", "pp">>, ProdviewPrefix \o <<"_">>)
US  == Url(<<"marketplace", "pp">>, <<"s">>)
UB  == Url(<<"marketplace", "b">>, <<"c">>)

\* The <loc> lists the sitemap may hold.
Sitemaps == { <<UA, UB, UA2, US>>, <<UT, UU>>, <<US, UA>> }

\* Characters of the model that re.sub(r"[^a-zA-Z0-9._-]+", "_", s) replaces.
UnsafeChars == {"~", "%"}

None == << >>

StartsWith(s, p) == Len(s) >= Len(p) /\ SubSeq(s, 1, Len(p)) = p

prodview_id_from_url(u) ==
    IF StartsWith(u.last, ProdviewPrefix) THEN u.last ELSE None

RECURSIVE Sanitize(_, _)
\* re.sub(r"[^a-zA-Z0-9._-]+", "_", s): every maximal run of unsafe
\* characters becomes one "_"; inRun says the previous character was unsafe.
Sanitize(s, inRun) ==
    IF s = << >> THEN << >>
    ELSE IF Head(s) \in UnsafeChars
         THEN (IF inRun THEN << >> ELSE <<"_">>) \o Sanitize(Tail(s), TRUE)
         ELSE <<Head(s)>> \o Sanitize(Tail(s), FALSE)

Min(a, b) == IF a < b THEN a ELSE b

safe_filename(s) ==
    LET t == Sanitize(s, FALSE) IN SubSeq(t, 1, Min(Len(t), SafeNameLen))

\* hashlib.sha1(url).hexdigest()[:16]: a name of safe characters, taken to
\* be different for different URLs and never a prodview id.
Sha1Hex(u) == <<"sha1">> \o u.dirs \o u.last

cache_path(v, kind, u) ==
    LET pid  == prodview_id_from_url(u)
        name == IF pid # None THEN pid ELSE Sha1Hex(u)
    IN  <<kind, IF v = "aws_test2_wreviews" THEN safe_filename(name) ELSE name>>

ReviewsUrl(pid) == Url(<<"marketplace", "reviews", "reviews-list">>, pid)

\* urlparse(url).path.strip("/").split("/")[1] == "pp"
Section(u) ==
    IF Len(u.dirs) >= 2 THEN u.dirs[2]
    ELSE IF u.last = <<"p", "p">> THEN "pp" ELSE "other"

\* ---------------------------------------------------------------- content
\* What a response body (or a cache file) holds: the URL it was the response
\* to, and the class of its bytes.
\*   "page"    well-formed document (for the sitemap: XML with the <loc> list)
\*   "notitle" well-formed document without a <title>
\*   "blank"   non-empty bytes without any markup (whitespace)
\*   "empty"   zero bytes
Bodies(kind) ==
    IF kind = "product" THEN {"page", "notitle", "blank", "empty"}
    ELSE {"page", "blank", "empty"}
Content(u, b) == [origin |-> u, body |-> b]
NoData == Content(NoUrl, "none")

\* Python truthiness of bytes | None: `if not content`.
Truthy(c) == c # NoData /\ c.body # "empty"

\* The statuses a GET may answer with: success, a non-error status that is
\* not 2xx, a client error, not-found, and the transient ones.
Statuses == {200, 304, 403, 404, 429, 500, 502, 503, 504}

\* r.raise_for_status(): raises for 400 <= status < 600.
RaisesForStatus(s) == s >= 400 /\ s < 600

\* ------------------------------------------------------------ page text
\* An optional value of a row: None, or Some(x).
Some(x) == <<x>>

\* All sequences over S of length 0..n.
SeqsUpTo(S, n) == UNION {[1..k -> S] : k \in 0..n}

\* A page text is the sequence of its words (the text split at its spaces).
\* The words the pricing texts of the model are made of.
PricingWords ==
    {"Free", "free", "trial", "BYOL", "usage-based", "hourly", "cost/month",
     "12-month", "contract", "annual", "contact", "pricing", "seller", "$9"}

\* str.lower(), word by word.
LowerWord(w) ==
    CASE w = "Free" -> "free"
      [] w = "BYOL" -> "byol"
      [] OTHER -> w

lower(text) == [k \in DOMAIN text |-> LowerWord(text[k])]

\* The strings the classifiers search for that a word holds.
Parts(w) ==
    CASE w = "cost/month" -> {"cost/month", "cost/"}
      [] w = "$9" -> {"$"}
      [] OTHER -> {w}

\* `phrase in t`: the words of the phrase occur next to each other in t.
Occurs(phrase, t) ==
    \E k \in 1..(Len(t) - Len(phrase) + 1) :
        \A j \in 1..Len(phrase) : phrase[j] \in Parts(t[k + j - 1])

\* The pricing_type tags of the specification.
PricingTags ==
    {"free", "free_trial", "byol", "usage_based", "hourly", "monthly",
     "annual", "contract", "contact_seller", "unknown"}

\* classify_pricing of the three scripts.
classify_pricing(v, page_text) ==
    LET t == lower(page_text)
        has(p) == Occurs(p, t)
    IN  IF has(<<"free", "trial">>) THEN "free_trial"
        ELSE IF /\ v = "aws_test"
                /\ has(<<"free">>) /\ ~has(<<"$">>) /\ ~has(<<"cost/">>)
             THEN "free"
        ELSE IF has(<<"bring", "your", "own", "license">>) \/ has(<<"byol">>)
             THEN "byol"
        ELSE IF has(<<"usage-based">>) \/ has(<<"usage", "based">>)
             THEN "usage_based"
        ELSE IF has(<<"cost/hour">>) \/ has(<<"hourly">>) THEN "hourly"
        ELSE IF has(<<"cost/month">>) THEN "monthly"
        ELSE IF \/ has(<<"12-month", "contract">>)
                \/ (v # "aws_test" /\ has(<<"12", "month", "contract">>))
                \/ (v = "aws_test" /\ (\/ has(<<"cost/12", "months">>)
                                       \/ has(<<"cost/12-month">>)))
             THEN "contract"
        ELSE IF v # "aws_scraper" /\ has(<<"annual">>) THEN "annual"
        ELSE IF \/ (v # "aws_test" /\ has(<<"contact", "seller">>))
                \/ (has(<<"contact">>) /\ has(<<"pricing">>))
             THEN "contact_seller"
        ELSE IF /\ v = "aws_test"
                /\ has(<<"pricing", "is", "based", "on", "the", "duration",
                         "and", "terms", "of", "your", "contract">>)
             THEN "contract"
        ELSE "unknown"

\* ------------------------------------------------------ contract terms
\* A number as the text spells it: the sequence of its digits.
DigitStrings == {<<1>>, <<2>>, <<1, 2>>}

\* The pieces the texts of the contract-term extraction are made of: an
\* occurrence of "<N><sep>month contract", or another word.
\*   sep "-"   "12-month contract"
\*   sep " - " "12 - month contract"
\*   sep " "   "12 month contract"
Term(n, sep) == [n |-> n, sep |-> sep]
Word == Term(<< >>, "")
TermPieces == {Term(n, sep) : n \in DigitStrings, sep \in {"-", " - ", " "}} \cup {Word}

\* re.findall(pattern, page_text): the N of every piece the pattern matches.
\*   "hyphen"       \b(\d+)\s*-\s*month contract\b
\*   "tight-hyphen" \b(\d+)-month contract\b
\*   "no-hyphen"    \b(\d+)\s*month contract\b
FindTerms(pattern, text) ==
    LET seps == CASE pattern = "hyphen" -> {"-", " - "}
                  [] pattern = "tight-hyphen" -> {"-"}
                  [] OTHER -> {" "}
    IN  {text[k].n : k \in {j \in DOMAIN text : text[j].sep \in seps}}

\* a < b for str: the first differing character decides, a proper prefix
\* is smaller.
StrLess(a, b) ==
    \/ \E k \in 1..Min(Len(a), Len(b)) :
          /\ \A j \in 1..(k - 1) : a[j] = b[j]
          /\ a[k] < b[k]
    \/ Len(a) < Len(b) /\ SubSeq(b, 1, Len(a)) = a

RECURSIVE sorted(_)
\* sorted(set(...)) of a set of str.
sorted(S) ==
    IF S = {} THEN << >>
    ELSE LET m == CHOOSE x \in S : \A y \in S \ {x} : StrLess(x, y)
         IN  <<m>> \o sorted(S \ {m})

\* The contract_terms field of parse_pricing_details / extract_pricing:
\* None, or the list of the N whose "<N>-month" are joined with ",".
contract_terms(v, page_text) ==
    LET first == FindTerms(IF v = "aws_test" THEN "tight-hyphen" ELSE "hyphen",
                           page_text)
        terms == IF first = {} /\ v # "aws_test"
                 THEN FindTerms("no-hyphen", page_text)
                 ELSE first
    IN  IF terms = {} THEN None ELSE Some(sorted(terms))

\* --------------------------------------------------------- reviews page
\* fetch_reviews_info answers "no meaningful text" below this length.
MinReviewTextLen == 50

\* The pieces the texts of a reviews page are made of, separated by white
\* space; "(paragraph)" is 60 characters of text that holds none of the
\* phrases the extractor looks for.
ReviewPieces ==
    {"Reviews are not supported", "Reviews are", "not supported",
     "3 AWS reviews", "4.6 out of 5", "(paragraph)"}

\* len() of a piece.
Chars(p) ==
    CASE p = "Reviews are not supported" -> 25
      [] p = "Reviews are" -> 11
      [] p = "not supported" -> 13
      [] p = "3 AWS reviews" -> 13
      [] p = "4.6 out of 5" -> 12
      [] OTHER -> 60

RECURSIVE SumChars(_)
SumChars(text) ==
    IF text = << >> THEN 0 ELSE Chars(Head(text)) + SumChars(Tail(text))

\* len(text.strip()): the pieces and the white space between them.
StrippedLen(text) ==
    IF text = << >> THEN 0 ELSE SumChars(text) + (Len(text) - 1)

\* t.lower(), piece by piece.
LowerPiece(p) ==
    CASE p = "Reviews are not supported" -> "reviews are not supported"
      [] p = "Reviews are" -> "reviews are"
      [] p = "3 AWS reviews" -> "3 aws reviews"
      [] OTHER -> p

\* "reviews are not supported" in low, after re.sub(r"\s+", " ", text).
HasNotSupportedMarker(text) ==
    \E k \in DOMAIN text :
        \/ LowerPiece(text[k]) = "reviews are not supported"
        \/ /\ LowerPiece(text[k]) = "reviews are"
           /\ k + 1 \in DOMAIN text
           /\ LowerPiece(text[k + 1]) = "not supported"

ReviewsInfo(exists, supported, rating, ratings, aws, external) ==
    [reviews_page_exists |-> exists, reviews_supported |-> supported,
     avg_rating |-> rating, ratings_count |-> ratings,
     aws_reviews_count |-> aws, external_reviews_count |-> external]

\* parse_reviews_list_page, and the part of
\* extract_reviews_from_reviews_page after the fetch.
parse_reviews_list_page(text) ==
    IF HasNotSupportedMarker(text)
    THEN ReviewsInfo(1, Some(0), None, None, None, None)
    ELSE ReviewsInfo(1, Some(1),
            IF \E k \in DOMAIN text : text[k] = "4.6 out of 5"
            THEN Some(<<4, 6>>) ELSE None,
            None,
            IF \E k \in DOMAIN text : text[k] = "3 AWS reviews"
            THEN Some(3) ELSE None,
            None)

\* fetch_reviews_info (aws_test2_wreviews.py) and
\* extract_reviews_from_reviews_page (aws_scraper.py) on what the fetch
\* returned: no content, or a page with this text.
fetch_reviews_info(v, page) ==
    IF ~page.fetched
    THEN ReviewsInfo(0, Some(0), None, None, None, None)
    ELSE IF v = "aws_test2_wreviews" /\ StrippedLen(page.text) < MinReviewTextLen
    THEN ReviewsInfo(1, None, None, None, None, None)
    ELSE parse_reviews_list_page(page.text)

\* ---------------------------------------------------------------- slug
\* s up to its first "?".
RECURSIVE UpToQuery(_)
UpToQuery(s) ==
    IF s = << >> \/ Head(s) = "?" THEN << >> ELSE <<Head(s)>> \o UpToQuery(Tail(s))

\* Mutant: the match runs to the end of the segment, "?" and query included.
RunAfter_Whole(u, k) ==
    IF k + 1 <= Len(u.dirs)
    THEN (IF u.dirs[k + 1] = "" THEN << >> ELSE <<u.dirs[k + 1]>>)
    ELSE u.last

\* The text between the "/" that ends the segment dirs[k] and the next "/"
\* (or the end of the URL), up to its first "?": what ([^/?]+) can match there.
RunAfter(u, k) ==
    IF k + 1 <= Len(u.dirs)
    THEN (IF u.dirs[k + 1] = "" THEN << >> ELSE <<u.dirs[k + 1]>>)
    ELSE UpToQuery(u.last)

\* extract_slug: re.search(r"/marketplace/<word>/([^/?]+)", url), the
\* leftmost match.
extract_slug(u, type_) ==
    LET word == CASE type_ = "product" -> "pp"
                  [] type_ = "seller" -> "seller-profile"
                  [] type_ = "category" -> "b"
                  [] OTHER -> ""
        at == {k \in 1..(Len(u.dirs) - 1) :
                  /\ u.dirs[k] = "marketplace"
                  /\ u.dirs[k + 1] = word
                  /\ RunAfter(u, k + 1) # << >>}
    IN  IF type_ \notin {"product", "seller", "category"} \/ at = {}
        THEN None
        ELSE Some(RunAfter(u, (CHOOSE k \in at : \A j \in at : k <= j) + 1))

\* ------------------------------------------------------------------ state
VARIABLES
    variant,       \* the script that runs
    sitemap,       \* the <loc> list the server's sitemap holds (unchanged)
    run,           \* how many times the script has been started
    pc,            \* position of main()
    err,           \* the exception that ended main(), "" if none
    cache,         \* CACHE_DIR: cache path -> content of the file
    table,         \* PRODUCTS_FILE on disk
    taxonomy,      \* whether this run wrote TAXONOMY_FILE
    product_urls,  \* main's sampled product_urls
    i,             \* main's loop index (enumerate(product_urls, 1))
    done_ids,      \* main's done_ids
    results,       \* main's results (rows, enriched)
    row,           \* the row fetch_product_info is building
    fpc,           \* position of the fetch call in progress
    f,             \* its frame: arguments, locals and what it did so far
    ret,           \* the value the last fetch call returned
    net,           \* <<kind, url>> of every session.get of this run
    calls,         \* <<kind, url>> of every fetch call of this run
    pauses,        \* the cooldown pauses of this run: the index i of each
    hist,          \* what earlier steps left behind, for the properties
    fn,            \* the text function under check, "" while a script runs
    arg,           \* its argument
    out            \* what it returned, NoOut before the call

vars == <<variant, sitemap, run, pc, err, cache, table, taxonomy, product_urls,
          i, done_ids, results, row, fpc, f, ret, net, calls, pauses, hist,
          fn, arg, out>>

textVars == <<fn, arg, out>>

mainVars == <<run, pc, err, table, taxonomy, product_urls, i, done_ids,
              results, row, pauses, hist>>

NoFrame ==
    [url |-> NoUrl, kind |-> "", use_cache |-> FALSE, attempt |-> 0,
     backoff |-> 0, gets |-> 0, sleeps |-> << >>, last404 |-> FALSE,
     only_transient |-> TRUE, got2xx |-> FALSE, cache0 |-> << >>]

\* PRODUCTS_FILE: absent, or a file that pd.read_csv reads (readable, with
\* the rows it holds), or a file of zero bytes (pd.read_csv raises).
NoTable == [exists |-> FALSE, readable |-> FALSE, rows |-> << >>]
TableOf(rows) == [exists |-> TRUE, readable |-> TRUE, rows |-> rows]
ZeroBytes == [exists |-> TRUE, readable |-> FALSE, rows |-> << >>]

\* A row of the products table. prod and rev are the URLs the product page
\* bytes and the reviews page bytes were the responses to (NoUrl: no reviews
\* page bytes were used).
Row(u, pid, has_name, prod, rev, exists) ==
    [url |-> u, prodview_id |-> pid, product_name |-> has_name,
     prod |-> prod, rev |-> rev, reviews_page_exists |-> exists]
NoRow == Row(NoUrl, None, FALSE, NoUrl, NoUrl, 0)

NoHist ==
    [start_table |-> NoTable,    \* PRODUCTS_FILE when this run started
     durable |-> << >>,          \* rows on disk after the last finished write
     prev_done |-> FALSE,        \* the run before this one reached its end
     killed |-> FALSE,           \* this run was terminated
     sitemap_ret |-> "pending"]  \* how this run's sitemap fetch ended

NoOut == [applied |-> FALSE]

Init ==
    /\ variant \in Variants
    /\ sitemap \in Sitemaps
    /\ run = 0
    /\ pc = "idle"
    /\ err = ""
    /\ cache = << >>
    /\ table = NoTable
    /\ taxonomy = FALSE
    /\ product_urls = << >>
    /\ i = 0
    /\ done_ids = {}
    /\ results = << >>
    /\ row = NoRow
    /\ fpc = "idle"
    /\ f = NoFrame
    /\ ret = NoData
    /\ net = {}
    /\ calls = {}
    /\ pauses = {}
    /\ hist = NoHist
    /\ fn = ""
    /\ arg = << >>
    /\ out = NoOut

\* ------------------------------------------------- fetch / fetch_url
\* The caller's side of a call: fetch_url(session, url, kind, use_cache).
CallFetch(u, kind) ==
    /\ fpc' = "call"
    /\ f' = [NoFrame EXCEPT !.url = u, !.kind = kind,
                            !.use_cache = UsesCache(variant),
                            !.cache0 = cache]
    /\ calls' = calls \cup {<<kind, u>>}

cpath == cache_path(variant, f.kind, f.url)

\* Mutant: only the sitemap is looked up in the cache.
CacheHolds_SitemapOnly ==
    f.use_cache /\ cpath \in DOMAIN cache /\ f.kind = "sitemap"

CacheHolds == f.use_cache /\ cpath \in DOMAIN cache

\* if use_cache and cpath.exists(): return cpath.read_bytes()
CacheHit ==
    /\ fpc = "call"
    /\ CacheHolds
    /\ ret' = cache[cpath]
    /\ fpc' = "ret"
    /\ UNCHANGED <<textVars, variant, sitemap, mainVars, cache, f, net, calls>>

\* cpath.read_bytes() raises (the file exists and cannot be read); the read
\* is outside the try block.
CacheReadError ==
    /\ fpc = "call"
    /\ CacheHolds
    /\ fpc' = "raise"
    /\ UNCHANGED <<textVars, variant, sitemap, mainVars, cache, f, ret, net, calls>>

\* backoff = 2.0; for attempt in range(1, MAX_RETRIES + 1)
CacheMiss ==
    /\ fpc = "call"
    /\ ~CacheHolds
    /\ fpc' = "loop"
    /\ f' = [f EXCEPT !.attempt = 1, !.backoff = 2]
    /\ UNCHANGED <<textVars, variant, sitemap, mainVars, cache, ret, net, calls>>

\* The status is one the claim C3 calls transient.
IsListedTransient(s) == s \in {429, 500, 502, 503, 504}

Is2xx(s) == s >= 200 /\ s < 300

\* session.get answered with status s (0: it raised instead). The frame
\* keeps what the properties ask about the responses of the call.
Got(s) ==
    [f EXCEPT !.gets = @ + 1,
              !.last404 = (s = 404),
              !.only_transient = @ /\ IsListedTransient(s),
              !.got2xx = @ \/ Is2xx(s)]

\* Mutant: the multiplier grows by 2 instead of doubling.
BackoffAndRetry_Linear(fr) ==
    /\ f' = [fr EXCEPT !.sleeps = Append(@, fr.backoff),
                       !.backoff = @ + 2,
                       !.attempt = @ + 1]
    /\ IF fr.attempt >= MAX_RETRIES(variant)
       THEN fpc' = "ret" /\ ret' = NoData
       ELSE fpc' = "loop" /\ UNCHANGED ret

\* polite_sleep(mult=backoff); backoff *= 2; then the next iteration, or the
\* end of the loop: print FAILED, return None.
BackoffAndRetry(fr) ==
    /\ f' = [fr EXCEPT !.sleeps = Append(@, fr.backoff),
                       !.backoff = @ * 2,
                       !.attempt = @ + 1]
    /\ IF fr.attempt >= MAX_RETRIES(variant)
       THEN fpc' = "ret" /\ ret' = NoData
       ELSE fpc' = "loop" /\ UNCHANGED ret

\* if status == 404: return None
Get404 ==
    /\ fpc = "loop"
    /\ Handles404(variant)
    /\ f' = Got(404)
    /\ net' = net \cup {<<f.kind, f.url>>}
    /\ fpc' = "ret"
    /\ ret' = NoData
    /\ UNCHANGED <<textVars, variant, sitemap, mainVars, cache, calls>>

\* if status in (429, 500, ...): polite_sleep(mult=backoff); backoff *= 2; continue
GetTransient ==
    /\ fpc = "loop"
    /\ \E s \in TransientStatuses(variant) :
          BackoffAndRetry(Got(s))
    /\ net' = net \cup {<<f.kind, f.url>>}
    /\ UNCHANGED <<textVars, variant, sitemap, mainVars, cache, calls>>

\* The statuses that reach r.raise_for_status().
ReachesRaiseForStatus(s) ==
    /\ s \notin TransientStatuses(variant)
    /\ (s = 404 => ~Handles404(variant))

\* session.get raises (s = 0), or r.raise_for_status() does: except
\* Exception: polite_sleep(mult=backoff); backoff *= 2
GetRaises ==
    /\ fpc = "loop"
    /\ \E s \in {0} \cup {t \in Statuses : ReachesRaiseForStatus(t)
                                           /\ RaisesForStatus(t)} :
          BackoffAndRetry(Got(s))
    /\ net' = net \cup {<<f.kind, f.url>>}
    /\ UNCHANGED <<textVars, variant, sitemap, mainVars, cache, calls>>

\* r.raise_for_status() passes: content = r.content; cache write;
\* polite_sleep(); return content
GetSuccess ==
    /\ fpc = "loop"
    /\ \E s \in {t \in Statuses : ReachesRaiseForStatus(t)
                                  /\ ~RaisesForStatus(t)},
          b \in Bodies(f.kind) :
          /\ f' = [Got(s) EXCEPT !.sleeps = Append(@, 1)]
          /\ ret' = Content(f.url, b)
          /\ cache' = IF f.use_cache
                      THEN (cpath :> Content(f.url, b)) @@ cache
                      ELSE cache
    /\ fpc' = "ret"
    /\ net' = net \cup {<<f.kind, f.url>>}
    /\ UNCHANGED <<textVars, variant, sitemap, mainVars, calls>>

\* cpath.write_bytes(content) raises: the file was not created, or it was
\* created (or truncated) and holds no byte; then the except branch.
GetWriteRaises ==
    /\ fpc = "loop"
    /\ f.use_cache
    /\ \E s \in {t \in Statuses : ReachesRaiseForStatus(t)
                                  /\ ~RaisesForStatus(t)},
          created \in BOOLEAN :
          /\ BackoffAndRetry(Got(s))
          /\ cache' = IF created
                      THEN (cpath :> Content(f.url, "empty")) @@ cache
                      ELSE cache
    /\ net' = net \cup {<<f.kind, f.url>>}
    /\ UNCHANGED <<textVars, variant, sitemap, mainVars, calls>>

\* ------------------------------------------------------------ sitemap
RECURSIVE Unique(_)
\* .unique() / .drop_duplicates(): the first occurrence of each URL is kept.
Unique(s) ==
    IF s = << >> THEN << >>
    ELSE LET rest == Unique(SubSeq(s, 1, Len(s) - 1))
             last == s[Len(s)]
         IN  IF \E k \in 1..Len(rest) : rest[k] = last
             THEN rest ELSE Append(rest, last)

\* "/marketplace/<word>/" in url
HasPath(u, word) ==
    \E k \in 1..(Len(u.dirs) - 1) : u.dirs[k] = "marketplace" /\ u.dirs[k + 1] = word

classify_url(u) ==
    IF HasPath(u, "pp") THEN "product"
    ELSE IF HasPath(u, "seller-profile") THEN "seller"
    ELSE IF HasPath(u, "b") THEN "category"
    ELSE "other"

\* The product URLs main() takes from the sitemap's <loc> list.
\* aws_scraper: type == "product" among the rows with a slug (every URL with
\* "/marketplace/pp/" in it has a non-empty segment after it here);
\* the other two: parts[0] == "marketplace" and section == "pp".
ProductUrls(v, locs) ==
    LET IsProduct(u) ==
            IF v = "aws_scraper" THEN classify_url(u) = "product"
            ELSE Len(u.dirs) >= 1 /\ u.dirs[1] = "marketplace" /\ Section(u) = "pp"
    IN  Unique(SelectSeq(locs, IsProduct))

\* rng.sample(product_urls, k=min(SAMPLE_PRODUCTS_TOTAL, len(product_urls))):
\* the generator is seeded with RANDOM_SEED, so the same list gives the same
\* selection in every run; the model takes the first k.
Sample(urls) == SubSeq(urls, 1, Min(SAMPLE_PRODUCTS_TOTAL, Len(urls)))

\* Mutant: the `if not content: raise` check is missing.
parse_sitemap_outcome_NoCheck(content) ==
    IF Truthy(content) /\ content.body = "blank" THEN "XMLSyntaxError" ELSE "ok"

\* What parse_sitemap / get_product_urls_from_sitemap do with the fetched
\* content: raise RuntimeError (`if not content`), fail in etree.parse, or go on.
parse_sitemap_outcome(content) ==
    IF ~Truthy(content) THEN "RuntimeError"
    ELSE IF content.body = "blank" THEN "XMLSyntaxError"
    ELSE "ok"

\* Mutant: the first record of the table is taken for a header and dropped.
DoneIdsOf_DropFirst(rows) ==
    {rows[k].prodview_id : k \in 2..Len(rows)} \ {None}

\* done_ids = set(existing["prodview_id"].dropna().astype(str).unique())
DoneIdsOf(rows) ==
    {rows[k].prodview_id : k \in 1..Len(rows)} \ {None}

\* ---------------------------------------------------------------- main
Running == pc \notin {"idle", "done", "aborted"}

StartRun ==
    /\ ~Running
    /\ run < MaxRuns
    /\ run' = run + 1
    /\ pc' = "parse_sitemap"
    /\ err' = ""
    /\ taxonomy' = FALSE
    /\ product_urls' = << >>
    /\ i' = 0
    /\ done_ids' = {}
    /\ results' = << >>
    /\ row' = NoRow
    /\ fpc' = "idle"
    /\ f' = NoFrame
    /\ ret' = NoData
    /\ net' = {}
    /\ calls' = {}
    /\ pauses' = {}
    /\ hist' = [start_table |-> table,
                durable |-> table.rows,
                prev_done |-> (pc = "done"),
                killed |-> FALSE,
                sitemap_ret |-> "pending"]
    /\ UNCHANGED <<textVars, variant, sitemap, cache, table>>

\* content = fetch_url(session, SITEMAP_URL, kind="sitemap", use_cache=True)
ParseSitemapCall ==
    /\ pc = "parse_sitemap"
    /\ CallFetch(SITEMAP_URL, "sitemap")
    /\ pc' = "sitemap_ret"
    /\ UNCHANGED <<textVars, variant, sitemap, run, err, cache, table, taxonomy,
                   product_urls, i, done_ids, results, row, ret, net, pauses,
                   hist>>

\* The rest of parse_sitemap, and main up to the resume step: the taxonomy
\* table is written, the product URLs are selected and sampled.
ParseSitemapReturn ==
    /\ pc = "sitemap_ret"
    /\ fpc = "ret"
    /\ LET o == parse_sitemap_outcome(ret) IN
         /\ hist' = [hist EXCEPT !.sitemap_ret =
                        IF ret = NoData THEN "none"
                        ELSE IF Truthy(ret) THEN "content" ELSE "empty"]
         /\ IF o = "ok"
            THEN /\ taxonomy' = TRUE
                 /\ product_urls' =
                       Sample(ProductUrls(variant,
                                          IF Truthy(ret) THEN sitemap ELSE << >>))
                 /\ i' = 1
                 /\ pc' = IF RESUME(variant) THEN "resume" ELSE "loop"
                 /\ UNCHANGED err
            ELSE /\ pc' = "aborted"
                 /\ err' = o
                 /\ UNCHANGED <<taxonomy, product_urls, i>>
    /\ fpc' = "idle"
    /\ f' = NoFrame
    /\ ret' = NoData
    /\ UNCHANGED <<textVars, variant, sitemap, run, cache, table, done_ids, results, row,
                   net, calls, pauses>>

\* "prodview_id" in existing.columns
HasColumn(rows, c) == \A k \in DOMAIN rows : c \in DOMAIN rows[k]

\* if RESUME and PRODUCTS_FILE.exists(): try: existing = pd.read_csv(...)
\* if "prodview_id" in existing.columns: ... except Exception: print a warning
LoadResume ==
    /\ pc = "resume"
    /\ IF table.exists /\ table.readable /\ HasColumn(table.rows, "prodview_id")
       THEN /\ done_ids' = DoneIdsOf(table.rows)
            /\ results' = table.rows
       ELSE UNCHANGED <<done_ids, results>>
    /\ pc' = "loop"
    /\ UNCHANGED <<textVars, variant, sitemap, run, err, cache, table, taxonomy,
                   product_urls, i, row, fpc, f, ret, net, calls, pauses,
                   hist>>

CurUrl == product_urls[i]

\* Mutant: the identifier is looked up among the ids of an empty list, so
\* nothing is ever skipped.
Skips_Unloaded(u) ==
    /\ RESUME(variant)
    /\ prodview_id_from_url(u) # None
    /\ prodview_id_from_url(u) \in DoneIdsOf(<< >>)

\* if pid and pid in done_ids: continue
Skips(u) ==
    /\ RESUME(variant)
    /\ prodview_id_from_url(u) # None
    /\ prodview_id_from_url(u) \in done_ids

\* The end of one loop iteration that was not skipped: the cooldown pause
\* (aws_test2_wreviews.py only), then the next item.
NextItem ==
    /\ pauses' = IF variant = "aws_test2_wreviews" /\ i % PAUSE_EVERY_N = 0
                 THEN pauses \cup {i} ELSE pauses
    /\ i' = i + 1
    /\ pc' = "loop"

SkipDone ==
    /\ pc = "loop"
    /\ i <= Len(product_urls)
    /\ Skips(CurUrl)
    /\ i' = i + 1
    /\ UNCHANGED <<textVars, variant, sitemap, run, pc, err, cache, table, taxonomy,
                   product_urls, done_ids, results, row, fpc, f, ret, net,
                   calls, pauses, hist>>

\* content = fetch_url(session, url, kind="product", use_cache=use_cache)
FetchProductCall ==
    /\ pc = "loop"
    /\ i <= Len(product_urls)
    /\ ~Skips(CurUrl)
    /\ CallFetch(CurUrl, "product")
    /\ pc' = "product_ret"
    /\ UNCHANGED <<textVars, variant, sitemap, run, err, cache, table, taxonomy,
                   product_urls, i, done_ids, results, row, ret, net, pauses,
                   hist>>

\* if not content: return None (aws_scraper: continue)
ProductNoContent ==
    /\ pc = "product_ret"
    /\ fpc = "ret"
    /\ ~Truthy(ret)
    /\ NextItem
    /\ fpc' = "idle" /\ f' = NoFrame /\ ret' = NoData
    /\ UNCHANGED <<textVars, variant, sitemap, run, err, cache, table, taxonomy,
                   product_urls, done_ids, results, row, net, calls,
                   hist>>

\* tree = html.fromstring(content) raises ParserError (no markup in the
\* bytes); nothing catches it.
PageParseError ==
    /\ pc \in {"product_ret", "reviews_ret"}
    /\ fpc = "ret"
    /\ Truthy(ret)
    /\ ret.body = "blank"
    /\ pc' = "aborted"
    /\ err' = "ParserError"
    /\ fpc' = "idle" /\ f' = NoFrame /\ ret' = NoData
    /\ UNCHANGED <<textVars, variant, sitemap, run, cache, table, taxonomy, product_urls,
                   i, done_ids, results, row, net, calls, pauses, hist>>

\* The product page parsed. aws_test2_wreviews: no pid -> return None, else
\* the reviews page is fetched. aws_scraper: the reviews page is fetched if
\* there is a pid, else the row gets the default review fields. aws_test:
\* the review fields come from the product page's own text, and main keeps
\* the row if it has a product_name.
ProductParsed ==
    /\ pc = "product_ret"
    /\ fpc = "ret"
    /\ Truthy(ret)
    /\ ret.body # "blank"
    /\ LET pid == prodview_id_from_url(CurUrl)
           has_name == ret.body = "page"
           base == Row(CurUrl, pid, has_name, ret.origin, NoUrl, 0)
       IN  CASE variant # "aws_test" /\ pid # None ->
                  /\ row' = base
                  /\ CallFetch(ReviewsUrl(pid), "reviews")
                  /\ pc' = "reviews_ret"
                  /\ UNCHANGED <<results, i, pauses>>
             [] variant = "aws_test2_wreviews" /\ pid = None ->
                  /\ NextItem
                  /\ fpc' = "idle" /\ f' = NoFrame
                  /\ UNCHANGED <<results, row, calls>>
             [] variant = "aws_scraper" /\ pid = None ->
                  /\ results' = Append(results, base)
                  /\ NextItem
                  /\ fpc' = "idle" /\ f' = NoFrame
                  /\ UNCHANGED <<row, calls>>
             [] variant = "aws_test" ->
                  /\ results' = IF has_name
                                THEN Append(results, [base EXCEPT !.rev = ret.origin])
                                ELSE results
                  /\ NextItem
                  /\ fpc' = "idle" /\ f' = NoFrame
                  /\ UNCHANGED <<row, calls>>
    /\ ret' = NoData
    /\ UNCHANGED <<textVars, variant, sitemap, run, err, cache, table, taxonomy,
                   product_urls, done_ids, net, hist>>

\* fetch_reviews_info / extract_reviews_from_reviews_page return, the row is
\* put together and appended; aws_test2_wreviews then rewrites the table.
ReviewsReturn ==
    /\ pc = "reviews_ret"
    /\ fpc = "ret"
    /\ ~(Truthy(ret) /\ ret.body = "blank")
    /\ results' = Append(results,
                         IF Truthy(ret)
                         THEN [row EXCEPT !.rev = ret.origin,
                                          !.reviews_page_exists = 1]
                         ELSE row)
    /\ row' = NoRow
    /\ IF variant = "aws_test2_wreviews"
       THEN pc' = "write_open" /\ UNCHANGED <<i, pauses>>
       ELSE NextItem
    /\ fpc' = "idle" /\ f' = NoFrame /\ ret' = NoData
    /\ UNCHANGED <<textVars, variant, sitemap, run, err, cache, table, taxonomy,
                   product_urls, done_ids, net, calls, hist>>

\* The loop is over. aws_test2_wreviews prints DONE; the other two write
\* the table now.
LoopEnd ==
    /\ pc = "loop"
    /\ i > Len(product_urls)
    /\ pc' = IF variant = "aws_test2_wreviews" THEN "done" ELSE "write_open"
    /\ UNCHANGED <<textVars, variant, sitemap, run, err, cache, table, taxonomy,
                   product_urls, i, done_ids, results, row, fpc, f, ret, net,
                   calls, pauses, hist>>

\* pd.DataFrame(results).to_csv(PRODUCTS_FILE, index=False) opens the file
\* for writing, which truncates it ...
WriteOpen ==
    /\ pc = "write_open"
    /\ table' = ZeroBytes
    /\ pc' = "write_rows"
    /\ UNCHANGED <<textVars, variant, sitemap, run, err, cache, taxonomy, product_urls,
                   i, done_ids, results, row, fpc, f, ret, net, calls, pauses,
                   hist>>

\* ... and writes the header and every row. aws_test then prints its
\* value_counts, which raises KeyError on a frame without columns.
WriteRows ==
    /\ pc = "write_rows"
    /\ table' = TableOf(results)
    /\ hist' = [hist EXCEPT !.durable = results]
    /\ CASE variant = "aws_test2_wreviews" ->
              NextItem /\ UNCHANGED err
         [] variant = "aws_scraper" ->
              pc' = "done" /\ UNCHANGED <<i, pauses, err>>
         [] variant = "aws_test" ->
              /\ IF results = << >>
                 THEN pc' = "aborted" /\ err' = "KeyError"
                 ELSE pc' = "done" /\ UNCHANGED err
              /\ UNCHANGED <<i, pauses>>
    /\ UNCHANGED <<textVars, variant, sitemap, run, cache, taxonomy, product_urls,
                   done_ids, results, row, fpc, f, ret, net, calls>>

\* An exception left fetch_url; nothing in main catches it.
FetchRaises ==
    /\ Running
    /\ fpc = "raise"
    /\ pc' = "aborted"
    /\ err' = "OSError"
    /\ fpc' = "idle" /\ f' = NoFrame
    /\ UNCHANGED <<textVars, variant, sitemap, run, cache, table, taxonomy, product_urls,
                   i, done_ids, results, row, ret, net, calls, pauses,
                   hist>>

\* The process is terminated: what it held in memory is gone. In the middle
\* of to_csv the file holds what was flushed: nothing, or the header and the
\* first rows.
Kill ==
    /\ Running
    /\ pc' = "idle"
    /\ hist' = [hist EXCEPT !.killed = TRUE]
    /\ IF pc = "write_rows"
       THEN \E k \in -1..(Len(results) - 1) :
               table' = IF k < 0 THEN ZeroBytes ELSE TableOf(SubSeq(results, 1, k))
       ELSE UNCHANGED table
    /\ fpc' = "idle" /\ f' = NoFrame /\ ret' = NoData
    /\ row' = NoRow
    /\ product_urls' = << >> /\ i' = 0 /\ done_ids' = {} /\ results' = << >>
    /\ UNCHANGED <<textVars, variant, sitemap, run, err, cache, taxonomy, net, calls,
                   pauses>>

Next ==
    \/ StartRun
    \/ ParseSitemapCall
    \/ ParseSitemapReturn
    \/ LoadResume
    \/ SkipDone
    \/ FetchProductCall
    \/ ProductNoContent
    \/ PageParseError
    \/ ProductParsed
    \/ ReviewsReturn
    \/ LoopEnd
    \/ WriteOpen
    \/ WriteRows
    \/ FetchRaises
    \/ Kill
    \/ CacheHit
    \/ CacheReadError
    \/ CacheMiss
    \/ Get404
    \/ GetTransient
    \/ GetRaises
    \/ GetSuccess
    \/ GetWriteRaises

Spec == Init /\ [][Next]_vars

\* ------------------------------------------------------ resume and loop
\* SpecLoop: steps 4 and 5 of aws_test2_wreviews.main (the resume step and
\* the scrape loop) on a longer list of sampled URLs and on every state the
\* products table may be in when main starts; one loop iteration is one step.

ItemChars == <<"a", "b", "c", "d", "e", "f", "g", "h">>

\* The k-th sampled URL.
Item(k) == Url(<<"marketplace", "pp">>, ProdviewPrefix \o <<ItemChars[k]>>)

\* The row fetch_product_info returns for the k-th URL.
ItemRow(k) == Row(Item(k), prodview_id_from_url(Item(k)), TRUE, Item(k), NoUrl, 0)

\* The rows of the URLs of S, in the order of the list.
RowsOf(S) ==
    LET all == [k \in 1..MaxLoopItems |-> ItemRow(k)]
    IN  SelectSeq(all, LAMBDA r : \E k \in S : r = ItemRow(k))

\* A row of a table that has no prodview_id column.
RowWithoutId(k) == [url |-> Item(k), product_name |-> TRUE]

\* PRODUCTS_FILE when main starts: absent; the table an earlier run left,
\* with the rows of some of the sampled URLs; that table made unreadable
\* for pd.read_csv (saved in another encoding, say); a table with other
\* columns.
PriorTables ==
    {NoTable}
    \cup {TableOf(RowsOf(S)) : S \in SUBSET (1..MaxLoopItems)}
    \cup {[exists |-> TRUE, readable |-> FALSE, rows |-> RowsOf({k})] :
             k \in 1..MaxLoopItems}
    \cup {TableOf(<<RowWithoutId(k)>>) : k \in 1..MaxLoopItems}

LoopInit ==
    /\ variant = "aws_test2_wreviews"
    /\ sitemap = << >>
    /\ run = 1
    /\ pc = "resume"
    /\ err = ""
    /\ cache = << >>
    /\ table \in PriorTables
    /\ taxonomy = TRUE
    /\ product_urls = [k \in 1..MaxLoopItems |-> Item(k)]
    /\ i = 1
    /\ done_ids = {}
    /\ results = << >>
    /\ row = NoRow
    /\ fpc = "idle"
    /\ f = NoFrame
    /\ ret = NoData
    /\ net = {}
    /\ calls = {}
    /\ pauses = {}
    /\ hist = [NoHist EXCEPT !.start_table = table, !.durable = table.rows,
                             !.sitemap_ret = "content"]
    /\ fn = ""
    /\ arg = << >>
    /\ out = NoOut

\* One iteration of the loop for a URL that is not skipped:
\* row = fetch_product_info(...); if row: results.append(row) and the table
\* is rewritten; then the cooldown pause if i % PAUSE_EVERY_N == 0.
\* fetch_product_info returns a row, returns None, or raises.
ScrapeItem ==
    /\ pc = "loop"
    /\ i <= Len(product_urls)
    /\ ~Skips(CurUrl)
    /\ calls' = calls \cup {<<"product", CurUrl>>}
    /\ \E outcome \in {"row", "none", "raise"} :
          CASE outcome = "row" ->
                  /\ results' = Append(results, ItemRow(i))
                  /\ table' = TableOf(results')
                  /\ hist' = [hist EXCEPT !.durable = results']
                  /\ NextItem
                  /\ UNCHANGED err
            [] outcome = "none" ->
                  /\ NextItem
                  /\ UNCHANGED <<results, table, hist, err>>
            [] OTHER ->
                  /\ pc' = "aborted"
                  /\ err' = "ParserError"
                  /\ UNCHANGED <<results, table, hist, i, pauses>>
    /\ UNCHANGED <<textVars, variant, sitemap, run, cache, taxonomy,
                   product_urls, done_ids, row, fpc, f, ret, net>>

NextLoop ==
    \/ LoadResume
    \/ SkipDone
    \/ ScrapeItem
    \/ LoopEnd

SpecLoop == LoopInit /\ [][NextLoop]_vars

\* ------------------------------------------------------- text functions
\* The classifiers and extractors are functions of a text (or a URL) alone.
\* SpecText applies each, once, to every input of a bounded set.

\* No script has been started.
NotStarted ==
    /\ run = 0
    /\ pc = "idle"
    /\ err = ""
    /\ cache = << >>
    /\ table = NoTable
    /\ taxonomy = FALSE
    /\ product_urls = << >>
    /\ i = 0
    /\ done_ids = {}
    /\ results = << >>
    /\ row = NoRow
    /\ fpc = "idle"
    /\ f = NoFrame
    /\ ret = NoData
    /\ net = {}
    /\ calls = {}
    /\ pauses = {}
    /\ hist = NoHist

\* The functions each script defines.
FnsOf(v) ==
    {"classify_pricing", "parse_pricing_details"}
    \cup (IF v # "aws_test" THEN {"fetch_reviews_info"} ELSE {})
    \cup (IF v = "aws_scraper" THEN {"classify_url"} ELSE {})

\* The URLs classify_url and extract_slug are applied to.
UrlArgs ==
    {Url(dirs, last) :
        dirs \in SeqsUpTo({"marketplace", "pp", "seller-profile", "b", ""}, MaxDirs),
        last \in {<< >>, <<"s">>, <<"?", "q">>, <<"s", "?", "q">>}}

ArgsOf(g) ==
    CASE g = "classify_pricing" -> SeqsUpTo(PricingWords, MaxTextLen)
      [] g = "parse_pricing_details" -> SeqsUpTo(TermPieces, MaxTextLen)
      [] g = "fetch_reviews_info" ->
            {[fetched |-> FALSE, text |-> << >>]}
            \cup {[fetched |-> TRUE, text |-> t] :
                     t \in SeqsUpTo(ReviewPieces, MaxTextLen)}
      [] OTHER -> UrlArgs

TextInit ==
    /\ variant \in Variants
    /\ sitemap = << >>
    /\ NotStarted
    /\ fn \in FnsOf(variant)
    /\ arg \in ArgsOf(fn)
    /\ out = NoOut

progVars == <<variant, sitemap, run, pc, err, cache, table, taxonomy,
              product_urls, i, done_ids, results, row, fpc, f, ret, net,
              calls, pauses, hist>>

\* out["pricing_type"] = classify_pricing(page_text)
CallClassifyPricing ==
    /\ fn = "classify_pricing"
    /\ out = NoOut
    /\ out' = [pricing_type |-> classify_pricing(variant, arg)]
    /\ UNCHANGED <<progVars, fn, arg>>

\* The contract terms of parse_pricing_details / extract_pricing.
CallParsePricingDetails ==
    /\ fn = "parse_pricing_details"
    /\ out = NoOut
    /\ out' = [contract_terms |-> contract_terms(variant, arg)]
    /\ UNCHANGED <<progVars, fn, arg>>

\* reviews = fetch_reviews_info(session, pid, use_cache=use_cache)
CallFetchReviewsInfo ==
    /\ fn = "fetch_reviews_info"
    /\ out = NoOut
    /\ out' = fetch_reviews_info(variant, arg)
    /\ UNCHANGED <<progVars, fn, arg>>

\* df["type"] = classify_url(url); df["slug"] = extract_slug(url, type)
CallClassifyUrl ==
    /\ fn = "classify_url"
    /\ out = NoOut
    /\ LET type_ == classify_url(arg)
       IN  out' = [type |-> type_, slug |-> extract_slug(arg, type_)]
    /\ UNCHANGED <<progVars, fn, arg>>

NextText ==
    \/ CallClassifyPricing
    \/ CallParsePricingDetails
    \/ CallFetchReviewsInfo
    \/ CallClassifyUrl

SpecText == TextInit /\ [][NextText]_vars

\* ============================================================ properties
InCall == fpc # "idle"

\* The cache held an entry for the call's (kind, key) when the call began.
HitAtEntry == InCall /\ f.use_cache /\ cpath \in DOMAIN f.cache0

\* C1: a fetch_url call with caching enabled that finds an entry for the
\* (kind, key) of its URL performs no GET and no sleep, and the value it
\* returns is the stored bytes -- also when the entry was stored by a fetch
\* of another URL with the same (kind, key).
C1_CacheHitNoNetwork ==
    HitAtEntry =>
        /\ fpc # "loop"
        /\ f.gets = 0
        /\ f.sleeps = << >>
        /\ (fpc = "ret" => ret = f.cache0[cpath])

\* C1 witness: a call returned the entry that a fetch of a different URL stored.
C1_Witness ==
    /\ HitAtEntry
    /\ fpc = "ret"
    /\ ret.origin # f.url
    /\ ret = cache[cpath]

\* C2: in every variant a 404 response ends the call at once: the no-data
\* result is returned, with no sleep and no cache write, and no further GET.
C2_NotFoundTerminal ==
    [][(f'.gets = f.gets + 1 /\ f'.last404) =>
          /\ fpc' = "ret"
          /\ ret' = NoData
          /\ f'.sleeps = f.sleeps
          /\ cache' = cache]_vars

\* The multipliers 2, 4, 8, ... of n backoff sleeps.
Doubling(n) == [k \in 1..n |-> 2 ^ k]

\* C3: a call that missed the cache and got only statuses of
\* {429, 500, 502, 503, 504} has made exactly MAX_RETRIES GETs when it
\* returns, slept once after each with the multipliers 2, 4, 8, ..., and
\* returns the no-data result.
C3_TransientRetries ==
    (fpc = "ret" /\ f.gets > 0 /\ f.only_transient) =>
        /\ f.gets = MAX_RETRIES(variant)
        /\ f.sleeps = Doubling(MAX_RETRIES(variant))
        /\ ret = NoData

\* C3 witness: fetch_url of aws_test2_wreviews.py returned after five
\* transient responses.
C3_Witness ==
    /\ variant = "aws_test2_wreviews"
    /\ fpc = "ret"
    /\ f.only_transient
    /\ f.gets = 5
    /\ f.sleeps = <<2, 4, 8, 16, 32>>

\* C4: no exception leaves fetch_url, whatever the statuses, the transport
\* exceptions and the cache read and write outcomes: the call ends by
\* returning the fetched bytes or the no-data result.
C4_NeverRaises ==
    /\ fpc # "raise"
    /\ (fpc = "ret" => (ret = NoData \/ ret.origin # NoUrl))

\* C5: the cache is success-only and append-only: an entry that appears
\* during a call is the entry of the call's (kind, key) and follows a 2xx
\* response, and the entries that existed when the call began are unchanged.
C5_CacheAppendOnlySuccessOnly ==
    InCall =>
        /\ DOMAIN f.cache0 \subseteq DOMAIN cache
        /\ \A k \in DOMAIN cache :
              IF k \in DOMAIN f.cache0
              THEN cache[k] = f.cache0[k]
              ELSE k = cpath /\ f.got2xx

Pids(rows) == {rows[k].prodview_id : k \in 1..Len(rows)}

RowsFor(pid, rows) == SelectSeq(rows, LAMBDA r : r.prodview_id = pid)

\* The product identifiers the prior output table held when this run began.
PriorIds == IF hist.start_table.readable THEN Pids(hist.start_table.rows) ELSE {}

\* C6: in a resumed run no fetch call (hence no GET and no cache read) is
\* made for the product page or the reviews page of a sampled URL whose
\* product identifier is in the prior output table, and no row is added
\* for it.
C6_ResumeSkipsDone ==
    (variant = "aws_test2_wreviews" /\ pc # "resume") =>
        \A k \in 1..Len(product_urls) :
            LET u == product_urls[k]
                pid == prodview_id_from_url(u)
            IN  (pid # None /\ pid \in PriorIds) =>
                    /\ <<"product", u>> \notin calls
                    /\ <<"reviews", ReviewsUrl(pid)>> \notin calls
                    /\ <<"product", u>> \notin net
                    /\ <<"reviews", ReviewsUrl(pid)>> \notin net
                    /\ RowsFor(pid, results) = RowsFor(pid, hist.start_table.rows)

\* C6 witness: a resumed run ended having skipped one item and fetched another.
C6_Witness ==
    /\ variant = "aws_test2_wreviews"
    /\ pc = "done"
    /\ \E k \in 1..Len(product_urls) :
          prodview_id_from_url(product_urls[k]) \in PriorIds \ {None}
    /\ \E k \in 1..Len(product_urls) : <<"product", product_urls[k]>> \in calls

\* The items main samples from the (unchanged) sitemap.
Sampled == Sample(ProductUrls(variant, sitemap))

\* Every sampled item has a row in the table the run started with.
AllSampledDone ==
    \A k \in 1..Len(Sampled) :
        /\ prodview_id_from_url(Sampled[k]) # None
        /\ prodview_id_from_url(Sampled[k]) \in PriorIds

\* This run follows a run that reached its end.
SecondRun == variant = "aws_test2_wreviews" /\ run >= 2 /\ hist.prev_done

\* C7 as stated: the run after a finished run makes no GET and leaves the
\* output table as it found it, whatever the items' outcomes were.
C7_SecondRunIdle ==
    SecondRun => (net = {} /\ (pc = "done" => table = hist.start_table))

\* C7 amended: the run after a finished run makes no GET for the sitemap
\* nor for an item that has a row, and when every sampled item has a row
\* it makes no GET at all and leaves the output table as it found it.
C7_SecondRunIdleWhenAllDone ==
    SecondRun =>
        /\ \A r \in net :
              /\ r[1] # "sitemap"
              /\ r[2].last \notin PriorIds
        /\ AllSampledDone => (net = {} /\ table = hist.start_table)

\* C7 witness: such a run ended, with items sampled and every one skipped.
C7_Witness ==
    /\ SecondRun
    /\ AllSampledDone
    /\ pc = "done"
    /\ Len(product_urls) > 0

IsPrefix(s, t) == Len(s) <= Len(t) /\ SubSeq(t, 1, Len(s)) = s

\* C8: when the run is terminated, at any step, the output table on disk is
\* readable and holds every row that had been written before.
C8_SafeInterruption ==
    (variant = "aws_test2_wreviews" /\ pc = "idle" /\ hist.killed) =>
        /\ table.exists => table.readable
        /\ hist.durable # << >> =>
              (table.readable /\ IsPrefix(hist.durable, table.rows))

\* C9: the review fields of a row come from the response to the reviews URL
\* of the row's own product identifier, or from no page at all.
C9_ReviewsOfOwnProduct ==
    variant = "aws_test2_wreviews" =>
        \A k \in 1..Len(results) :
            results[k].rev \in {NoUrl, ReviewsUrl(prodview_id_from_url(results[k].url))}

\* C10: when the sitemap fetch returned the no-data result, the run ended
\* with the RuntimeError, no product or reviews page was fetched, and no
\* taxonomy or products table was written.
C10_SitemapFailureAborts ==
    hist.sitemap_ret = "none" =>
        /\ pc = "aborted"
        /\ err = "RuntimeError"
        /\ calls = {<<"sitemap", SITEMAP_URL>>}
        /\ taxonomy = FALSE
        /\ table = hist.start_table
        /\ results = << >>

\* C10 witness: the sitemap fetch of a run returned no data after GETs.
C10_Witness ==
    /\ hist.sitemap_ret = "none"
    /\ pc = "aborted"
    /\ <<"sitemap", SITEMAP_URL>> \in net

\* This run obtained the sitemap and parsed it.
SitemapObtained == hist.sitemap_ret = "content" /\ taxonomy

\* C11: once the sitemap has been obtained, no exception ends the run,
\* whatever the outcomes of the items, and when main has reached its final
\* step the products output table exists.
C11_RunAlwaysCompletes ==
    (variant \in {"aws_scraper", "aws_test2_wreviews"} /\ SitemapObtained) =>
        /\ pc # "aborted"
        /\ pc = "done" => table.exists

\* C15: a product page that was fetched (fetch_url returned its bytes) and
\* parsed, with or without the markup the extractors look for, is never
\* dropped: main goes on to the reviews page with the row in hand, or
\* appends the row to its results.
C15_AbsentMarkupKeepsItem ==
    [][(/\ pc = "product_ret" /\ fpc = "ret"
        /\ Truthy(ret) /\ ret.body # "blank"
        /\ pc' # "idle") =>
          \/ pc' = "reviews_ret" /\ row'.url = CurUrl
          \/ /\ Len(results') = Len(results) + 1
             /\ results'[Len(results')].url = CurUrl]_vars

\* C18: the products output table of aws_test2_wreviews.py never holds two
\* rows with the same prodview_id.
C18_NoDuplicateIds ==
    (variant = "aws_test2_wreviews" /\ table.readable) =>
        \A a, b \in 1..Len(table.rows) :
            a # b => table.rows[a].prodview_id # table.rows[b].prodview_id

\* C20: every entry of the cache is one the callers of fetch_url accept as
\* fetched content (`if not content` is false for it).
C20_CacheEntriesAccepted ==
    variant = "aws_test2_wreviews" =>
        \A k \in DOMAIN cache : Truthy(cache[k])

\* The function of SpecText has been applied.
Applied(g) == fn = g /\ out # NoOut

\* C12: a fetched reviews page whose text holds the "reviews are not
\* supported" marker gives reviews_page_exists 1, reviews_supported 0 and
\* null for the rating and the counts, whatever else the text holds and
\* however long it is.
C12_NotSupportedMarker ==
    (Applied("fetch_reviews_info") /\ arg.fetched
        /\ HasNotSupportedMarker(arg.text)) =>
        out = ReviewsInfo(1, Some(0), None, None, None, None)

RECURSIVE Value(_)
\* The number a digit string spells.
Value(n) == IF n = << >> THEN 0 ELSE 10 * Value(SubSeq(n, 1, Len(n) - 1)) + n[Len(n)]

\* C13: contract_terms lists each N that occurs as "N-month contract" or
\* "N month contract" exactly once, in ascending numeric order, and is null
\* when there is no such occurrence.
C13_ContractTermsNumeric ==
    (Applied("parse_pricing_details") /\ variant # "aws_test") =>
        LET ns == {arg[k].n : k \in {j \in DOMAIN arg : arg[j].sep # ""}}
        IN  IF ns = {} THEN out.contract_terms = None
            ELSE /\ out.contract_terms # None
                 /\ LET l == out.contract_terms[1]
                    IN  /\ {l[k] : k \in DOMAIN l} = ns
                        /\ Len(l) = Cardinality(ns)
                        /\ \A a, b \in DOMAIN l :
                              a < b => Value(l[a]) < Value(l[b])

\* The cascade of the specification: the rules in order, each with the
\* phrases one of which must occur (any) or all of which must occur (all).
Rule(tag, any, all) == [tag |-> tag, any |-> any, all |-> all]
Cascade ==
    << Rule("free_trial", {<<"free", "trial">>}, {}),
       Rule("free", {<<"free">>}, {}),
       Rule("byol", {<<"bring", "your", "own", "license">>, <<"byol">>}, {}),
       Rule("usage_based", {<<"usage-based">>, <<"usage", "based">>}, {}),
       Rule("hourly", {<<"cost/hour">>, <<"hourly">>}, {}),
       Rule("monthly", {<<"cost/month">>}, {}),
       Rule("contract", {<<"12-month", "contract">>,
                         <<"12", "month", "contract">>}, {}),
       Rule("annual", {<<"annual">>}, {}),
       Rule("contact_seller", {<<"contact", "seller">>},
            {<<"contact">>, <<"pricing">>}) >>

Matches(r, t) ==
    \/ \E p \in r.any : Occurs(p, t)
    \/ r.all # {} /\ \A p \in r.all : Occurs(p, t)

\* The tag of the first rule of the cascade that matches, else unknown.
CascadeTag(t) ==
    LET hits == {k \in DOMAIN Cascade : Matches(Cascade[k], t)}
    IN  IF hits = {} THEN "unknown"
        ELSE Cascade[CHOOSE k \in hits : \A j \in hits : k <= j].tag

\* C14: classify_pricing returns, for every text, one tag of the tag set:
\* the tag of the first rule of the cascade whose phrase occurs in the text
\* ("free trial" before a bare "free"), and unknown when none occurs.
C14_ClassifyPricingCascade ==
    (Applied("classify_pricing") /\ variant = "aws_test2_wreviews") =>
        /\ out.pricing_type \in PricingTags
        /\ out.pricing_type = CascadeTag(lower(arg))

\* The places of "/marketplace/<word>/" in the URL, leftmost first.
PrefixAt(u, word) ==
    {k \in 1..(Len(u.dirs) - 1) : u.dirs[k] = "marketplace" /\ u.dirs[k + 1] = word}

\* The part of the last segment that belongs to the path: what precedes "?".
PathPart(s) ==
    LET q == {k \in DOMAIN s : s[k] = "?"}
    IN  IF q = {} THEN s ELSE SubSeq(s, 1, (CHOOSE k \in q : \A j \in q : k <= j) - 1)

\* The path segment that follows the prefix at k, << >> if none does.
SegmentAfter(u, k) ==
    IF k + 2 <= Len(u.dirs)
    THEN (IF u.dirs[k + 2] = "" THEN << >> ELSE <<u.dirs[k + 2]>>)
    ELSE PathPart(u.last)

First(S) == CHOOSE k \in S : \A j \in S : k <= j

MatchesNoPattern(u) ==
    PrefixAt(u, "pp") = {} /\ PrefixAt(u, "seller-profile") = {} /\ PrefixAt(u, "b") = {}

\* C17 as stated: a URL with the product prefix is a product and its slug is
\* the path segment that follows the prefix, never null; a URL with none of
\* the three prefixes is other, with a null slug.
C17_SlugOfProductUrl ==
    Applied("classify_url") =>
        /\ PrefixAt(arg, "pp") # {} =>
              /\ out.type = "product"
              /\ out.slug # None
              /\ out.slug = Some(SegmentAfter(arg, First(PrefixAt(arg, "pp"))))
        /\ MatchesNoPattern(arg) => (out.type = "other" /\ out.slug = None)

\* The places of the product prefix that a non-empty path segment follows.
ProductSegmentAt(u) == {k \in PrefixAt(u, "pp") : SegmentAfter(u, k) # << >>}

\* C17 amended: a URL with the product prefix is a product; its slug is the
\* path segment that follows the leftmost prefix which a non-empty segment
\* follows, and null when the prefix is followed by nothing, by "/" or by
\* "?" wherever it occurs; a URL with none of the three prefixes is other,
\* with a null slug.
C17_SlugWhenSegmentFollows ==
    Applied("classify_url") =>
        /\ PrefixAt(arg, "pp") # {} =>
              /\ out.type = "product"
              /\ out.slug = IF ProductSegmentAt(arg) = {} THEN None
                            ELSE Some(SegmentAfter(arg, First(ProductSegmentAt(arg))))
        /\ MatchesNoPattern(arg) => (out.type = "other" /\ out.slug = None)

\* C17 witness: the slug of a product URL that ends in a query.
C17_Witness ==
    /\ Applied("classify_url")
    /\ arg = Url(<<"marketplace", "pp">>, <<"s", "?", "q">>)
    /\ out = [type |-> "product", slug |-> Some(<<"s">>)]

\* The k-th sampled URL was handed to fetch_product_info in this run.
Fetched(k) == <<"product", product_urls[k]>> \in calls

\* C16: between two consecutive cooldown pauses of a run at most
\* PAUSE_EVERY_N items are fetched, whatever the mix of skipped and fetched
\* items.
C16_PauseEveryN ==
    \A p1, p2 \in pauses :
        (p1 < p2 /\ ~\E p \in pauses : p1 < p /\ p < p2) =>
            Cardinality({k \in (p1 + 1)..p2 : Fetched(k)}) <= PAUSE_EVERY_N

\* C19: when main ends, every row that the products table held when main
\* started is still in the table, whatever state the table was in.
C19_ResumeKeepsRows ==
    (variant = "aws_test2_wreviews" /\ pc = "done") =>
        \A k \in DOMAIN hist.start_table.rows :
            \E j \in DOMAIN table.rows : table.rows[j] = hist.start_table.rows[k]

====
